---------------------------- MODULE Spec2Model ----------------------------
(***************************************************************************)
(* A model of mloptimizer's genetic engine, BaseOptimizer in               *)
(* src/mloptimizer/genoptimizer/base.py: optimize_clf (fresh and resumed   *)
(* from a checkpoint), the generational loop custom_ea_simple and the DEAP *)
(* operators it calls (varAnd, cxTwoPoint, mutUniformInt, selTournament,   *)
(* HallOfFame.update, Statistics.compile, Logbook.record).                 *)
(*                                                                         *)
(* Python's global random stream is a variable, rnd, advanced by every     *)
(* draw, so that a run is a function of the seed and a checkpoint's        *)
(* rndstate is a value that can be restored.  The file system is two maps, *)
(* cp_files and progress_files, from a generation index to a file's        *)
(* content.                                                                *)
(***************************************************************************)
EXTENDS Integers, Sequences, FiniteSets, TLC

(***************************************************************************)
(* Bounds of the model (not of the program).                               *)
(***************************************************************************)
\* seeds given to the constructor: 1..NumSeeds
NumSeeds == 2
\* population sizes given to optimize_clf: MaxPop-1 .. MaxPop
MaxPop == 4
\* generation budgets given to optimize_clf and custom_ea_simple: 1 and MaxGen
MaxGen == 3
\* calls of optimize_clf / custom_ea_simple in one behaviour
MaxCalls == 3

(***************************************************************************)
(* Program constants.                                                      *)
(***************************************************************************)
\* tools.HallOfFame(10)
HofMaxsize == 10
\* cxpb=0.5, mutpb=0.5, indpb=0.5, as percentages
CxpbPct == 50
MutpbPct == 50
IndpbPct == 50
\* tools.selTournament, tournsize=4
Tournsize == 4

(***************************************************************************)
(* The search space: self.hyperparams, one Hyperparam per evolved          *)
(* dimension, in the order of the dict's keys.                             *)
(***************************************************************************)
hyperparams ==
    << [name |-> "max_depth", min_value |-> 1, max_value |-> 4,
        hyperparam_type |-> "int"],
       [name |-> "min_samples", min_value |-> 2, max_value |-> 5,
        hyperparam_type |-> "int"],
       [name |-> "ccp_alpha", min_value |-> 0, max_value |-> 3,
        hyperparam_type |-> "int"] >>

NDims == Len(hyperparams)

(***************************************************************************)
(* The random stream.  random.seed, random.random, random.randint and      *)
(* random.choice all advance one global state; the generator is modelled   *)
(* by a 16-bit linear congruential generator (full period 65536), and a    *)
(* draw is read off the new state the way the float in [0, 1) is scaled.   *)
(***************************************************************************)
RndStates == 0 .. 65535

RndAdvance(s) == (s * 25173 + 13849) % 65536

\* random.seed(seed): the state a seed sets
RndSeed(seed) == RndAdvance((seed * 7919) % 65536)

\* random.random() < pct/100, read off the advanced state s
RndBelow(s, pct) == s * 100 < pct * 65536

\* random.randint(lo, hi), both ends included, read off the advanced state s
RndInt(s, lo, hi) == lo + ((s * (hi - lo + 1)) \div 65536)

(***************************************************************************)
(* Individuals: a list of genes with a fitness; fitness.values is the      *)
(* empty tuple while the fitness is invalid and a 1-tuple once set.        *)
(***************************************************************************)
\* a variant of Individual: made with a fitness already set
IndividualScored(genes) == [genes |-> genes, fitness |-> << 0 >>]

Individual(genes) == [genes |-> genes, fitness |-> << >>]

Valid(ind) == Len(ind.fitness) > 0

\* del ind.fitness.values
Invalidate(ind) == [ind EXCEPT !.fitness = << >>]

\* the scoring collaborator behind evaluate_clf: deterministic, here the
\* sum of the genes
RECURSIVE SumSeq(_)
SumSeq(s) == IF s = << >> THEN 0 ELSE Head(s) + SumSeq(Tail(s))

evaluate_clf(ind) == << SumSeq(ind.genes) >>

(***************************************************************************)
(* init_individual: one randint(min_value, max_value) per dimension.       *)
(* Returns the individual and the advanced stream.                         *)
(***************************************************************************)
RECURSIVE InitGenes(_, _, _)
InitGenes(k, ps, s) ==
    IF k > NDims THEN [genes |-> ps, rnd |-> s]
    ELSE LET s1 == RndAdvance(s)
         IN  InitGenes(k + 1,
                       Append(ps, RndInt(s1, hyperparams[k].min_value,
                                             hyperparams[k].max_value)),
                       s1)

init_individual(s) ==
    LET r == InitGenes(1, << >>, s)
    IN  [ind |-> Individual(r.genes), rnd |-> r.rnd]

\* tools.initRepeat(list, toolbox.individual, n)
RECURSIVE initRepeat(_, _, _)
initRepeat(n, acc, s) ==
    IF n = 0 THEN [pop |-> acc, rnd |-> s]
    ELSE LET r == init_individual(s)
         IN  initRepeat(n - 1, Append(acc, r.ind), r.rnd)

(***************************************************************************)
(* tools.cxTwoPoint(ind1, ind2): two cut points, the genes between them    *)
(* exchanged in place.  Returns both individuals and the advanced stream.  *)
(***************************************************************************)
cxTwoPoint(ind1, ind2, s) ==
    LET size == IF Len(ind1.genes) < Len(ind2.genes)
                THEN Len(ind1.genes) ELSE Len(ind2.genes)
        s1   == RndAdvance(s)
        p1   == RndInt(s1, 1, size)
        s2   == RndAdvance(s1)
        p2   == RndInt(s2, 1, size - 1)
        \* if cxpoint2 >= cxpoint1: cxpoint2 += 1, else swap the two points
        cxpoint1 == IF p2 >= p1 THEN p1 ELSE p2
        cxpoint2 == IF p2 >= p1 THEN p2 + 1 ELSE p1
        \* Python's slice [cxpoint1:cxpoint2] is positions cxpoint1+1..cxpoint2
        InSlice(i) == cxpoint1 < i /\ i <= cxpoint2
    IN  [ind1 |-> [ind1 EXCEPT !.genes =
                     [i \in 1 .. Len(ind1.genes) |->
                        IF InSlice(i) THEN ind2.genes[i] ELSE ind1.genes[i]]],
         ind2 |-> [ind2 EXCEPT !.genes =
                     [i \in 1 .. Len(ind2.genes) |->
                        IF InSlice(i) THEN ind1.genes[i] ELSE ind2.genes[i]]],
         rnd  |-> s2]

(***************************************************************************)
(* tools.mutUniformInt(individual, low, up, indpb): each gene is, with     *)
(* probability indpb, redrawn by randint(low[i], up[i]); low and up are    *)
(* the min_value and max_value of self.hyperparams.                        *)
(***************************************************************************)
MutLow(i) == hyperparams[i].min_value

\* a variant of MutUp: the upper bound taken as exclusive, one too high for
\* randint
MutUpOneMore(i) == hyperparams[i].max_value + 1

MutUp(i) == hyperparams[i].max_value

RECURSIVE MutGenes(_, _, _)
MutGenes(i, genes, s) ==
    IF i > Len(genes) \/ i > NDims THEN [genes |-> genes, rnd |-> s]
    ELSE LET s1 == RndAdvance(s)
         IN  IF RndBelow(s1, IndpbPct)
             THEN LET s2 == RndAdvance(s1)
                  IN  MutGenes(i + 1,
                               [genes EXCEPT ![i] = RndInt(s2, MutLow(i), MutUp(i))],
                               s2)
             ELSE MutGenes(i + 1, genes, s1)

mutUniformInt(ind, s) ==
    LET r == MutGenes(1, ind.genes, s)
    IN  [ind |-> [ind EXCEPT !.genes = r.genes], rnd |-> r.rnd]

(***************************************************************************)
(* deap.algorithms.varAnd(population, toolbox, cxpb, mutpb): the offspring *)
(* are clones of the population; each consecutive pair is mated with       *)
(* probability cxpb, then each individual is mutated with probability      *)
(* mutpb; whatever an operator was applied to loses its fitness.           *)
(* touched[i] records whether an operator was applied to offspring i.      *)
(***************************************************************************)
RECURSIVE VarMate(_, _, _, _)
VarMate(i, off, touched, s) ==
    IF i + 1 > Len(off) THEN [pop |-> off, touched |-> touched, rnd |-> s]
    ELSE LET s1 == RndAdvance(s)
         IN  IF RndBelow(s1, CxpbPct)
             THEN LET m == cxTwoPoint(off[i], off[i + 1], s1)
                  IN  VarMate(i + 2,
                              [off EXCEPT ![i] = Invalidate(m.ind1),
                                          ![i + 1] = Invalidate(m.ind2)],
                              [touched EXCEPT ![i] = TRUE, ![i + 1] = TRUE],
                              m.rnd)
             ELSE VarMate(i + 2, off, touched, s1)

RECURSIVE VarMutate(_, _, _, _)
VarMutate(i, off, touched, s) ==
    IF i > Len(off) THEN [pop |-> off, touched |-> touched, rnd |-> s]
    ELSE LET s1 == RndAdvance(s)
         IN  IF RndBelow(s1, MutpbPct)
             THEN LET m == mutUniformInt(off[i], s1)
                  IN  VarMutate(i + 1,
                                [off EXCEPT ![i] = Invalidate(m.ind)],
                                [touched EXCEPT ![i] = TRUE],
                                m.rnd)
             ELSE VarMutate(i + 1, off, touched, s1)

varAnd(pop, s) ==
    LET mated == VarMate(1, pop, [i \in 1 .. Len(pop) |-> FALSE], s)
    IN  VarMutate(1, mated.pop, mated.touched, mated.rnd)

(***************************************************************************)
(* tools.selTournament(individuals, k, tournsize): k times, tournsize      *)
(* aspirants drawn by random.choice and the best of them chosen (max       *)
(* keeps the first of equally fit aspirants).                              *)
(***************************************************************************)
\* random.choice(seq), read off the advanced state s
RndChoice(s, n) == 1 + ((s * n) \div 65536)

RECURSIVE Aspirants(_, _, _, _)
Aspirants(j, individuals, best, s) ==
    IF j = 0 THEN [best |-> best, rnd |-> s]
    ELSE LET s1  == RndAdvance(s)
             asp == individuals[RndChoice(s1, Len(individuals))]
         IN  Aspirants(j - 1, individuals,
                       IF best = << >> THEN << asp >>
                       ELSE IF asp.fitness[1] > best[1].fitness[1]
                            THEN << asp >> ELSE best,
                       s1)

RECURSIVE selTournament(_, _, _, _)
selTournament(individuals, k, chosen, s) ==
    IF k = 0 THEN [pop |-> chosen, rnd |-> s]
    ELSE LET r == Aspirants(Tournsize, individuals, << >>, s)
         IN  selTournament(individuals, k - 1, chosen \o r.best, r.rnd)

(***************************************************************************)
(* tools.HallOfFame(maxsize).update(population).  items are kept best      *)
(* first.  An individual enters when it beats the last item or the hall    *)
(* is not full, and no item has the same genes (similar = operator.eq on   *)
(* lists); a full hall drops its last item first.  insert places the copy  *)
(* after the items of strictly greater fitness (bisect_right on the        *)
(* ascending keys).                                                        *)
(***************************************************************************)
HofInsert(items, ind) ==
    LET above == Cardinality({i \in 1 .. Len(items) :
                               items[i].fitness[1] > ind.fitness[1]})
    IN  SubSeq(items, 1, above) \o << ind >> \o SubSeq(items, above + 1, Len(items))

HofSimilar(items, ind) == \E i \in 1 .. Len(items) : items[i].genes = ind.genes

HofAdmits(items, ind) ==
    \/ ind.fitness[1] > items[Len(items)].fitness[1]
    \/ Len(items) < HofMaxsize

\* a variant of HofUpdateOne: a full hall does not drop its last item
HofUpdateOneNoRemove(items, ind, first) ==
    IF Len(items) = 0 /\ HofMaxsize # 0 THEN HofInsert(items, first)
    ELSE IF HofAdmits(items, ind) /\ ~HofSimilar(items, ind)
         THEN HofInsert(items, ind)
         ELSE items

\* a variant of HofUpdateOne: a full hall drops its first item, remove(0)
HofUpdateOneDropBest(items, ind, first) ==
    IF Len(items) = 0 /\ HofMaxsize # 0 THEN HofInsert(items, first)
    ELSE IF HofAdmits(items, ind) /\ ~HofSimilar(items, ind)
         THEN HofInsert(IF Len(items) >= HofMaxsize
                        THEN SubSeq(items, 2, Len(items)) ELSE items,
                        ind)
         ELSE items

HofUpdateOne(items, ind, first) ==
    IF Len(items) = 0 /\ HofMaxsize # 0 THEN HofInsert(items, first)
    ELSE IF HofAdmits(items, ind) /\ ~HofSimilar(items, ind)
         THEN HofInsert(IF Len(items) >= HofMaxsize
                        THEN SubSeq(items, 1, Len(items) - 1) ELSE items,
                        ind)
         ELSE items

RECURSIVE HofUpdateFrom(_, _, _)
HofUpdateFrom(items, pop, i) ==
    IF i > Len(pop) THEN items
    ELSE HofUpdateFrom(HofUpdateOne(items, pop[i], pop[1]), pop, i + 1)

\* a variant of HallOfFameUpdate: the last individual of the population is
\* not offered to the hall
HallOfFameUpdateButLast(items, pop) ==
    HofUpdateFrom(items, SubSeq(pop, 1, Len(pop) - 1), 1)

HallOfFameUpdate(items, pop) == HofUpdateFrom(items, pop, 1)

(***************************************************************************)
(* stats.compile(population) and logbook.record(gen, nevals, **record):    *)
(* avg is np.mean of the fitness values, kept exact as sum over count.     *)
(***************************************************************************)
FitValues(pop) == [i \in 1 .. Len(pop) |-> pop[i].fitness[1]]

SeqMin(s) == CHOOSE x \in {s[i] : i \in 1 .. Len(s)} :
                \A j \in 1 .. Len(s) : x <= s[j]

SeqMax(s) == CHOOSE x \in {s[i] : i \in 1 .. Len(s)} :
                \A j \in 1 .. Len(s) : x >= s[j]

StatsCompile(pop) ==
    [avg |-> [sum |-> SumSeq(FitValues(pop)), count |-> Len(pop)],
     min |-> SeqMin(FitValues(pop)),
     max |-> SeqMax(FitValues(pop))]

LogbookRecord(g, nevals, rec) ==
    [gen |-> g, nevals |-> nevals, avg |-> rec.avg, min |-> rec.min, max |-> rec.max]

(***************************************************************************)
(* The state.                                                              *)
(*   mlopt_seed, rnd            the seed and Python's global random state  *)
(*   popsize                    the population argument of optimize_clf    *)
(*   optimization_logger,       whether these attributes of the optimizer  *)
(*   progress_path              are set (they are None after __init__)     *)
(*   results_path               "None", or whether self.results_path (and  *)
(*                              self.graphics_path beside it) is a         *)
(*                              directory ("Dir") or missing ("Missing")   *)
(*   populations                self.populations, the population history   *)
(*   population, halloffame,    the loop's population, hall of fame and    *)
(*   logbook                    logbook                                    *)
(*   start_gen, ngen, gen,      custom_ea_simple's arguments and loop      *)
(*   checkpoint_flag,           index                                      *)
(*   checkpoint_path                                                       *)
(*   invalid_ind, c             the positions of the individuals to        *)
(*                              evaluate, and the evaluation counter       *)
(*   pc, outcome                the position in the loop; how the last     *)
(*                              call ended                                 *)
(*   cp_files, progress_files   the checkpoint and progress directories    *)
(* History kept for the properties:                                        *)
(*   parents, touched, varied   the population before variation, whom an   *)
(*                              operator was applied to, and the           *)
(*                              population after variation                 *)
(*   evaluated                  the positions passed to the evaluator in   *)
(*                              the current generation, in order           *)
(*   ran                        the generations the current call entered   *)
(*   call                       the current call: its kind, what it was    *)
(*                              given, the random state, the population    *)
(*                              history and the files on disk when it      *)
(*                              entered                                    *)
(*                              custom_ea_simple, the checkpoint it        *)
(*                              resumed from                               *)
(*   calls                      the number of calls made                   *)
(*   pristine, lineage          no draw since the seed was set; the        *)
(*                              checkpoints on disk come from one seeded   *)
(*                              fresh run of this optimizer and its        *)
(*                              resumptions                                *)
(*   one_pass, resumed          per budget, the results of the seeded      *)
(*                              fresh runs and of the runs resumed from    *)
(*                              their checkpoints, in order of return      *)
(***************************************************************************)
VARIABLES mlopt_seed, rnd, popsize, optimization_logger, progress_path,
          results_path, populations, population, halloffame, logbook,
          start_gen, ngen, gen, checkpoint_flag, checkpoint_path,
          invalid_ind, c, pc, outcome, cp_files, progress_files,
          parents, touched, varied, evaluated, ran, call, calls,
          pristine, lineage, one_pass, resumed

(***************************************************************************)
(* The search-space assembly and the codec, for get_hyperparams and        *)
(* individual2dict.  A dict is a sequence of records with distinct names,  *)
(* in the order of its keys.                                               *)
(*   default_hyperparams        what get_default_hyperparams returns       *)
(*   custom_hyperparams,        the constructor's arguments                *)
(*   custom_fixed_hyperparams                                              *)
(*   default_fixed_hyperparams  what get_default_fixed_hyperparams returns *)
(*   self_hyperparams           self.hyperparams                           *)
(*   individual, individual_dict  the argument and the result of the last  *)
(*                              individual2dict                            *)
(*   codec_pc                   "new", "built" (after __init__), "decoded" *)
(***************************************************************************)
VARIABLES default_hyperparams, custom_hyperparams, custom_fixed_hyperparams,
          default_fixed_hyperparams, self_hyperparams, individual,
          individual_dict, codec_pc

spaceVars == << default_hyperparams, custom_hyperparams,
                custom_fixed_hyperparams, default_fixed_hyperparams,
                self_hyperparams, individual, individual_dict, codec_pc >>

(***************************************************************************)
(* Parallel mode.                                                          *)
(*   use_parallel               the constructor's argument                 *)
(*   pool                       how the current call of optimize_clf got   *)
(*                              its worker pool: "none" (not asked for),   *)
(*                              "ok" (toolbox.map is pool.map), or the     *)
(*                              exception multiprocessing raised           *)
(*   pool_warning               the current call logged the warning        *)
(*   worker_done                the jobs of the pool.map under way that    *)
(*                              are complete, in order of completion       *)
(*   fitnesses                  the list pool.map returned                 *)
(***************************************************************************)
VARIABLES use_parallel, pool, pool_warning, worker_done, fitnesses

poolVars == << use_parallel, pool, pool_warning, worker_done, fitnesses >>

(***************************************************************************)
(* The objects of a run, for what is a copy and what is a reference.       *)
(*   heap                       the Individual objects made so far, each   *)
(*                              with its genes and fitness; an object's    *)
(*                              identity is its position                   *)
(*   population_refs            the objects the loop's population lists    *)
(*   halloffame_refs            the objects the hall of fame holds         *)
(*   populations_refs           the objects listed by the entries of       *)
(*                              self.populations                           *)
(*   heap_rnd, heap_gen,        the random state, loop index, budget and   *)
(*   heap_ngen, heap_pc         position of the run                        *)
(***************************************************************************)
VARIABLES heap, population_refs, halloffame_refs, populations_refs,
          heap_rnd, heap_gen, heap_ngen, heap_pc

heapVars == << heap, population_refs, halloffame_refs, populations_refs,
               heap_rnd, heap_gen, heap_ngen, heap_pc >>

extVars == << spaceVars, poolVars, heapVars >>

engineVars == << mlopt_seed, rnd, popsize, optimization_logger, progress_path,
           results_path, populations, population, halloffame, logbook,
           start_gen, ngen, gen, checkpoint_flag, checkpoint_path,
           invalid_ind, c, pc, outcome, cp_files, progress_files,
           parents, touched, varied, evaluated, ran, call, calls,
           pristine, lineage, one_pass, resumed >>

vars == << engineVars, extVars >>

objVars == << optimization_logger, progress_path, results_path, populations >>
loopVars == << population, halloffame, logbook, invalid_ind, c >>
argVars == << start_gen, ngen, gen, checkpoint_flag, checkpoint_path >>
fileVars == << cp_files, progress_files >>
histVars == << parents, touched, varied, evaluated, ran, call, calls,
               pristine, lineage, one_pass, resumed >>

Seeds == 1 .. NumSeeds
PopSizes == (MaxPop - 1) .. MaxPop
Generations == {1, MaxGen}
\* the generation budgets of direct calls of custom_ea_simple
DirectGenerations == {1}
PathKinds == {"None", "Missing", "File", "Dir"}
\* whether <checkpoint's folder>/results and /graphics exist when a run is
\* resumed: optimize_clf does not create them
ResultsKinds == {"Missing", "Dir"}

EmptyMap == [x \in {} |-> << >>]

NoCall == [kind |-> "none", population |-> << >>, halloffame |-> << >>,
           logbook |-> << >>, cp_files |-> EmptyMap,
           progress_files |-> EmptyMap, from |-> -1, rnd |-> 0,
           populations |-> << >>]

\* set_mlopt_seed(seed), from __init__: random.seed(seed)
set_mlopt_seed(seed) == RndSeed(seed)

(***************************************************************************)
(* __init__: the state after construction.                                 *)
(***************************************************************************)
InitEngine ==
    /\ rnd = set_mlopt_seed(mlopt_seed)
    /\ optimization_logger = FALSE
    /\ progress_path = FALSE
    /\ results_path = "None"
    /\ populations = << >>
    /\ population = << >>
    /\ halloffame = << >>
    /\ logbook = << >>
    /\ start_gen = 0
    /\ ngen = 0
    /\ gen = 0
    /\ checkpoint_flag = TRUE
    /\ checkpoint_path = "None"
    /\ invalid_ind = << >>
    /\ c = 1
    /\ pc = "idle"
    /\ outcome = "none"
    /\ cp_files = EmptyMap
    /\ progress_files = EmptyMap
    /\ parents = << >>
    /\ touched = << >>
    /\ varied = << >>
    /\ evaluated = << >>
    /\ ran = << >>
    /\ call = NoCall
    /\ calls = 0
    /\ pristine = TRUE
    /\ lineage = FALSE
    /\ one_pass = [g \in Generations |-> << >>]
    /\ resumed = [g \in Generations |-> << >>]

\* the optimizer of the engine's runs: the default space, nothing custom
InitSpace ==
    /\ default_hyperparams = hyperparams
    /\ custom_hyperparams = << >>
    /\ custom_fixed_hyperparams = << >>
    /\ default_fixed_hyperparams = << >>
    /\ self_hyperparams = hyperparams
    /\ individual = << >>
    /\ individual_dict = << >>
    /\ codec_pc = "built"

\* no object made
InitHeap ==
    /\ heap = << >>
    /\ population_refs = << >>
    /\ halloffame_refs = << >>
    /\ populations_refs = << >>
    /\ heap_rnd = 0
    /\ heap_gen = 0
    /\ heap_ngen = 0
    /\ heap_pc = "none"

\* no pool asked for
InitPool ==
    /\ pool = "none"
    /\ pool_warning = FALSE
    /\ worker_done = << >>
    /\ fitnesses = << >>

Init ==
    /\ mlopt_seed \in Seeds
    /\ popsize \in PopSizes
    /\ InitEngine
    /\ InitSpace
    /\ use_parallel = FALSE
    /\ InitPool
    /\ InitHeap

\* a variant of Construct: __init__ without random.seed
ConstructNoSeed ==
    /\ pc = "idle"
    /\ ~pristine
    /\ calls < MaxCalls
    /\ rnd' = rnd
    /\ optimization_logger' = FALSE
    /\ progress_path' = FALSE
    /\ results_path' = "None"
    /\ populations' = << >>
    /\ population' = << >>
    /\ halloffame' = << >>
    /\ logbook' = << >>
    /\ outcome' = "none"
    /\ pristine' = TRUE
    /\ call' = NoCall
    /\ lineage' = FALSE
    /\ UNCHANGED << extVars, mlopt_seed, popsize, argVars, invalid_ind, c, pc, fileVars,
                    parents, touched, varied, evaluated, ran, calls,
                    one_pass, resumed >>

(***************************************************************************)
(* A new optimizer is constructed with the same seed (a second process, or *)
(* a second object): __init__ again.  The files on disk stay.              *)
(***************************************************************************)
Construct ==
    /\ pc = "idle"
    /\ ~pristine
    /\ calls < MaxCalls
    /\ rnd' = set_mlopt_seed(mlopt_seed)
    /\ optimization_logger' = FALSE
    /\ progress_path' = FALSE
    /\ results_path' = "None"
    /\ populations' = << >>
    /\ population' = << >>
    /\ halloffame' = << >>
    /\ logbook' = << >>
    /\ outcome' = "none"
    /\ pristine' = TRUE
    /\ call' = NoCall
    /\ lineage' = FALSE
    /\ UNCHANGED << extVars, mlopt_seed, popsize, argVars, invalid_ind, c, pc, fileVars,
                    parents, touched, varied, evaluated, ran, calls,
                    one_pass, resumed >>

(***************************************************************************)
(* custom_ea_simple's entry, lines 599-603: with checkpoint_flag and a     *)
(* path that is None or no directory it logs the error and raises.  The    *)
(* result is the outcome of the check: "ok", or the exception raised (the  *)
(* logging call itself fails when optimization_logger is None).            *)
(***************************************************************************)
\* a variant of CheckpointDirCheck: the path is checked whatever the flag
CheckpointDirCheckAlways(flag, path, logger) ==
    IF path = "None" \/ path # "Dir"
    THEN IF logger THEN "NotADirectoryError" ELSE "AttributeError"
    ELSE "ok"

CheckpointDirCheck(flag, path, logger) ==
    IF flag /\ (path = "None" \/ path # "Dir")
    THEN IF logger THEN "NotADirectoryError" ELSE "AttributeError"
    ELSE "ok"

\* no exception has escaped a call: an uncaught exception ends the program,
\* and what follows it is a new optimizer in a new process
ProgramRuns == outcome \in {"none", "returned"}

\* what every call of custom_ea_simple does on entry: the directory check is
\* made, and the loop entered with the arguments or the error raised (the
\* generation arguments of a call that raises are never read, and are not
\* kept)
EnterLoop(chk, sg, g, flag, path) ==
    /\ checkpoint_flag' = flag
    /\ checkpoint_path' = path
    /\ start_gen' = IF chk = "ok" THEN sg ELSE start_gen
    /\ ngen' = IF chk = "ok" THEN g ELSE ngen
    /\ gen' = IF chk = "ok" THEN sg ELSE gen
    /\ pc' = IF chk = "ok" THEN "gen_start" ELSE "idle"
    /\ outcome' = IF chk = "ok" THEN "none" ELSE chk
    /\ invalid_ind' = << >>
    /\ c' = 1
    /\ parents' = << >>
    /\ touched' = << >>
    /\ varied' = << >>
    /\ evaluated' = << >>
    /\ ran' = << >>
    /\ calls' = calls + 1

(***************************************************************************)
(* optimize_clf(population, generations) without a checkpoint, lines       *)
(* 415-502: a random population, an empty hall of fame and logbook, the    *)
(* execution folder removed and made again with its checkpoints, results,  *)
(* graphics and progress folders, then custom_ea_simple from generation 0. *)
(***************************************************************************)
FreshRun(g) ==
    /\ LET r == initRepeat(popsize, << >>, rnd)
       IN  /\ population' = r.pop
           /\ rnd' = r.rnd
           /\ call' = [kind |-> "fresh", population |-> r.pop,
                       halloffame |-> << >>, logbook |-> << >>,
                       cp_files |-> EmptyMap, progress_files |-> EmptyMap,
                       from |-> -1, rnd |-> r.rnd, populations |-> populations]
    /\ halloffame' = << >>
    /\ logbook' = << >>
    /\ progress_path' = TRUE
    /\ results_path' = "Dir"
    /\ optimization_logger' = TRUE
    /\ cp_files' = EmptyMap
    /\ progress_files' = EmptyMap
    /\ EnterLoop(CheckpointDirCheck(TRUE, "Dir", TRUE), 0, g, TRUE, "Dir")
    /\ lineage' = pristine
    /\ pristine' = FALSE
    /\ UNCHANGED << mlopt_seed, popsize, populations, one_pass, resumed >>

OptimizeClfFresh(g) ==
    /\ pc = "idle"
    /\ ProgramRuns
    /\ calls < MaxCalls
    /\ ~use_parallel
    /\ FreshRun(g)
    /\ UNCHANGED extVars

\* a variant of OptimizeClfResume: start_gen = cp['generation'], so the saved
\* generation is run again
OptimizeClfResumeSameGen(k, g, results) ==
    /\ pc = "idle"
    /\ ProgramRuns
    /\ calls < MaxCalls
    /\ ~use_parallel
    /\ k \in DOMAIN cp_files
    /\ LET cp == cp_files[k]
       IN  /\ population' = cp.population
           /\ halloffame' = cp.halloffame
           /\ logbook' = cp.logbook
           /\ rnd' = cp.rndstate
           /\ call' = [kind |-> "resume", population |-> cp.population,
                       halloffame |-> cp.halloffame, logbook |-> cp.logbook,
                       cp_files |-> cp_files,
                       progress_files |-> progress_files, from |-> k,
                       rnd |-> cp.rndstate, populations |-> populations]
           /\ EnterLoop(CheckpointDirCheck(TRUE, "Dir", TRUE),
                        cp.generation, g, TRUE, "Dir")
    /\ optimization_logger' = TRUE
    /\ results_path' = results
    /\ pristine' = FALSE
    /\ UNCHANGED << extVars, mlopt_seed, popsize, progress_path, populations, fileVars,
                    lineage, one_pass, resumed >>

\* a variant of OptimizeClfResume: random.setstate(cp['rndstate']) left
\* out, so the stream goes on from the draws of the dropped population
OptimizeClfResumeNoSetstate(k, g, results) ==
    /\ pc = "idle"
    /\ ProgramRuns
    /\ calls < MaxCalls
    /\ ~use_parallel
    /\ k \in DOMAIN cp_files
    /\ LET cp == cp_files[k]
       IN  /\ population' = cp.population
           /\ halloffame' = cp.halloffame
           /\ logbook' = cp.logbook
           /\ rnd' = initRepeat(popsize, << >>, rnd).rnd
           /\ call' = [kind |-> "resume", population |-> cp.population,
                       halloffame |-> cp.halloffame, logbook |-> cp.logbook,
                       cp_files |-> cp_files,
                       progress_files |-> progress_files, from |-> k,
                       rnd |-> initRepeat(popsize, << >>, rnd).rnd,
                       populations |-> populations]
           /\ EnterLoop(CheckpointDirCheck(TRUE, "Dir", TRUE),
                        cp.generation + 1, g, TRUE, "Dir")
    /\ optimization_logger' = TRUE
    /\ results_path' = results
    /\ pristine' = FALSE
    /\ UNCHANGED << extVars, mlopt_seed, popsize, progress_path, populations, fileVars,
                    lineage, one_pass, resumed >>

(***************************************************************************)
(* optimize_clf(population, generations, checkpoint), lines 415-460 and    *)
(* 486-502: a random population is drawn and dropped, the checkpoint is    *)
(* loaded and population, start_gen, hall of fame, logbook and random      *)
(* state taken from it; checkpoint_path is the file's directory.           *)
(* progress_path is not assigned on this path.                             *)
(***************************************************************************)
OptimizeClfResume(k, g, results) ==
    /\ pc = "idle"
    /\ ProgramRuns
    /\ calls < MaxCalls
    /\ ~use_parallel
    /\ k \in DOMAIN cp_files
    /\ LET cp == cp_files[k]
       IN  /\ population' = cp.population
           /\ halloffame' = cp.halloffame
           /\ logbook' = cp.logbook
           /\ rnd' = cp.rndstate
           /\ call' = [kind |-> "resume", population |-> cp.population,
                       halloffame |-> cp.halloffame, logbook |-> cp.logbook,
                       cp_files |-> cp_files,
                       progress_files |-> progress_files, from |-> k,
                       rnd |-> cp.rndstate, populations |-> populations]
           /\ EnterLoop(CheckpointDirCheck(TRUE, "Dir", TRUE),
                        cp.generation + 1, g, TRUE, "Dir")
    /\ optimization_logger' = TRUE
    /\ results_path' = results
    /\ pristine' = FALSE
    /\ UNCHANGED << extVars, mlopt_seed, popsize, progress_path, populations, fileVars,
                    lineage, one_pass, resumed >>

(***************************************************************************)
(* custom_ea_simple called by itself on the optimizer's current            *)
(* population, logbook and hall of fame, with start_gen left at its        *)
(* default 0: with checkpoint_flag true and any checkpoint_path, or with   *)
(* checkpoint_flag false and checkpoint_path left at its default None.     *)
(***************************************************************************)
CustomEaSimple(flag, path, g) ==
    /\ pc = "idle"
    /\ ProgramRuns
    /\ calls < MaxCalls
    /\ call' = [kind |-> "direct", population |-> population,
                halloffame |-> halloffame, logbook |-> logbook,
                cp_files |-> cp_files, progress_files |-> progress_files,
                from |-> -1, rnd |-> rnd, populations |-> populations]
    /\ EnterLoop(CheckpointDirCheck(flag, path, optimization_logger),
                 0, g, flag, path)
    /\ pristine' = FALSE
    /\ lineage' = FALSE
    /\ UNCHANGED << extVars, mlopt_seed, rnd, popsize, objVars, population, halloffame,
                    logbook, fileVars, one_pass, resumed >>

(***************************************************************************)
(* The loop, for gen in range(start_gen, ngen + 1).                        *)
(***************************************************************************)
ProgressHeader == [i |-> "i", total |-> "total", Individual |-> "Individual",
                   fitness |-> "fitness"]

RunResult == [logbook |-> logbook, halloffame |-> halloffame]

\* _write_population_file and _write_logbook_file, lines 349-374:
\* os.path.join(None, ...) raises TypeError, and to_csv into a folder that
\* does not exist raises OSError
WriteResultsFiles ==
    IF results_path = "None" THEN "TypeError"
    ELSE IF results_path # "Dir" THEN "OSError"
    ELSE "ok"

\* what is left of optimize_clf once custom_ea_simple has returned, lines
\* 504-535: the population table (sort_values by 'fitness' raises KeyError
\* on the table of an empty history), the logbook table and the two plots
\* are written and the best classifier returned
OptimizeClfExport ==
    IF populations = << >> THEN "export KeyError"
    ELSE IF WriteResultsFiles # "ok" THEN "export " \o WriteResultsFiles
    ELSE "returned"

\* custom_ea_simple has returned its results, whether or not the export of
\* optimize_clf that follows has raised
LoopReturned ==
    outcome \in {"returned", "export KeyError", "export OSError",
                 "export TypeError"}

\* the range is exhausted: return population, logbook, halloffame (line
\* 671), and in optimize_clf the export that follows
Return ==
    /\ pc = "gen_start"
    /\ gen > ngen
    /\ pc' = "idle"
    /\ outcome' = IF call.kind = "direct" THEN "returned" ELSE OptimizeClfExport
    /\ one_pass' = IF call.kind = "fresh" /\ lineage
                   THEN [one_pass EXCEPT ![ngen] = Append(@, RunResult)]
                   ELSE one_pass
    /\ resumed' = IF call.kind = "resume" /\ lineage /\ call.from < ngen
                  THEN [resumed EXCEPT ![ngen] = Append(@, RunResult)]
                  ELSE resumed
    /\ UNCHANGED << extVars, mlopt_seed, rnd, popsize, objVars, loopVars, argVars,
                    fileVars, parents, touched, varied, evaluated, ran, call, calls,
                    pristine, lineage >>

\* lines 608-609 with self.progress_path None: os.path.join raises TypeError
GenStartFail ==
    /\ pc = "gen_start"
    /\ gen <= ngen
    /\ ~progress_path
    /\ pc' = "idle"
    /\ outcome' = "TypeError"
    /\ UNCHANGED << extVars, mlopt_seed, rnd, popsize, objVars, loopVars, argVars,
                    fileVars, histVars >>

\* lines 608-613: the generation's progress file is opened for writing and
\* holds the header
GenStart ==
    /\ pc = "gen_start"
    /\ gen <= ngen
    /\ progress_path
    /\ progress_files' = (gen :> << ProgressHeader >>) @@ progress_files
    /\ ran' = Append(ran, gen)
    /\ pc' = "vary"
    /\ UNCHANGED << extVars, mlopt_seed, rnd, popsize, objVars, loopVars, argVars,
                    outcome, cp_files, parents, touched, varied, evaluated, call,
                    calls, pristine, lineage, one_pass, resumed >>

\* a variant of InvalidPositions: every individual is evaluated, valid or not
InvalidPositionsAll(pop) == [i \in 1 .. Len(pop) |-> i]

\* a variant of InvalidPositions: the last invalid individual is left out
InvalidPositionsButLast(pop) ==
    LET inv == SelectSeq([i \in 1 .. Len(pop) |-> i], LAMBDA i : ~Valid(pop[i]))
    IN  SubSeq(inv, 1, Len(inv) - 1)

\* line 618: [ind for ind in population if not ind.fitness.valid]
InvalidPositions(pop) ==
    SelectSeq([i \in 1 .. Len(pop) |-> i], LAMBDA i : ~Valid(pop[i]))

\* lines 615-621: variation, and the individuals to evaluate
Vary ==
    /\ pc = "vary"
    /\ LET r == varAnd(population, rnd)
       IN  /\ population' = r.pop
           /\ rnd' = r.rnd
           /\ touched' = r.touched
           /\ varied' = r.pop
           /\ invalid_ind' = InvalidPositions(r.pop)
           /\ pc' = IF InvalidPositions(r.pop) = << >> THEN "record"
                    ELSE IF pool = "ok" THEN "workers"
                    ELSE "evaluate"
    /\ parents' = population
    /\ c' = 1
    /\ evaluated' = << >>
    /\ UNCHANGED << extVars, mlopt_seed, popsize, objVars, halloffame, logbook, argVars,
                    outcome, fileVars, ran, call, calls, pristine, lineage,
                    one_pass, resumed >>

\* a variant of EvalOne: the progress file is opened for writing, not for
\* appending, so the row replaces what the file held
EvalOneRowReplaces ==
    /\ pc = "evaluate"
    /\ c <= Len(invalid_ind)
    /\ LET idx == invalid_ind[c]
           fit == evaluate_clf(population[idx])
       IN  /\ population' = [population EXCEPT ![idx].fitness = fit]
           /\ progress_files' =
                [progress_files EXCEPT ![gen] =
                    << [i |-> c, total |-> Len(invalid_ind),
                        Individual |-> population[idx].genes,
                        fitness |-> fit] >>]
    /\ c' = c + 1
    /\ evaluated' = Append(evaluated, invalid_ind[c])
    /\ pc' = IF c = Len(invalid_ind) THEN "record" ELSE "evaluate"
    /\ UNCHANGED << extVars, mlopt_seed, rnd, popsize, objVars, halloffame, logbook,
                    invalid_ind, argVars, outcome, cp_files, parents, touched,
                    varied, ran, call, calls, pristine, lineage, one_pass, resumed >>

\* lines 622-637, one turn of the loop over zip(invalid_ind, fitnesses): the
\* lazy map evaluates the individual, its fitness is set and a row appended
\* to the progress file
EvalOne ==
    /\ pc = "evaluate"
    /\ c <= Len(invalid_ind)
    /\ LET idx == invalid_ind[c]
           fit == evaluate_clf(population[idx])
       IN  /\ population' = [population EXCEPT ![idx].fitness = fit]
           /\ progress_files' =
                [progress_files EXCEPT ![gen] =
                    Append(@, [i |-> c, total |-> Len(invalid_ind),
                               Individual |-> population[idx].genes,
                               fitness |-> fit])]
    /\ c' = c + 1
    /\ evaluated' = Append(evaluated, invalid_ind[c])
    /\ pc' = IF c = Len(invalid_ind) THEN "record" ELSE "evaluate"
    /\ UNCHANGED << extVars, mlopt_seed, rnd, popsize, objVars, halloffame, logbook,
                    invalid_ind, argVars, outcome, cp_files, parents, touched,
                    varied, ran, call, calls, pristine, lineage, one_pass, resumed >>

\* a variant of Record: the generation's record written over the last one
RecordOverLast ==
    /\ pc = "record"
    /\ halloffame' = HallOfFameUpdate(halloffame, population)
    /\ logbook' =
          LET rec == LogbookRecord(gen, Len(invalid_ind), StatsCompile(population))
          IN  IF logbook = << >> THEN << rec >>
              ELSE [logbook EXCEPT ![Len(logbook)] = rec]
    /\ pc' = "select"
    /\ UNCHANGED << extVars, mlopt_seed, rnd, popsize, objVars, population, invalid_ind, c,
                    argVars, outcome, fileVars, histVars >>

\* lines 639-645: the hall of fame is updated from the population, the
\* statistics compiled and the generation's record appended to the logbook
Record ==
    /\ pc = "record"
    /\ halloffame' = HallOfFameUpdate(halloffame, population)
    /\ logbook' = Append(logbook, LogbookRecord(gen, Len(invalid_ind),
                                                StatsCompile(population)))
    /\ pc' = "select"
    /\ UNCHANGED << extVars, mlopt_seed, rnd, popsize, objVars, population, invalid_ind, c,
                    argVars, outcome, fileVars, histVars >>

\* a variant of Select: one individual fewer is selected
SelectOneLess ==
    /\ pc = "select"
    /\ LET r == selTournament(population, Len(population) - 1, << >>, rnd)
       IN  /\ population' = r.pop
           /\ rnd' = r.rnd
           /\ populations' = Append(populations, r.pop)
    /\ pc' = "checkpoint"
    /\ UNCHANGED << extVars, mlopt_seed, popsize, optimization_logger, progress_path,
                    results_path, halloffame, logbook, invalid_ind, c, argVars, outcome,
                    fileVars, histVars >>

\* lines 648-659: tournament selection of len(population) individuals, and
\* the selected population appended to self.populations
Select ==
    /\ pc = "select"
    /\ LET r == selTournament(population, Len(population), << >>, rnd)
       IN  /\ population' = r.pop
           /\ rnd' = r.rnd
           /\ populations' = Append(populations, r.pop)
    /\ pc' = "checkpoint"
    /\ UNCHANGED << extVars, mlopt_seed, popsize, optimization_logger, progress_path,
                    results_path, halloffame, logbook, invalid_ind, c, argVars, outcome,
                    fileVars, histVars >>

\* lines 666-667 and the loop's next turn: the population and logbook tables
\* are written, which raises when the results folder is missing
EndGeneration ==
    /\ gen' = IF WriteResultsFiles = "ok" THEN gen + 1 ELSE gen
    /\ pc' = IF WriteResultsFiles = "ok" THEN "gen_start" ELSE "idle"
    /\ outcome' = IF WriteResultsFiles = "ok" THEN outcome ELSE WriteResultsFiles

\* a variant of CheckpointDict: the generation saved is the next one
CheckpointDictNextGen ==
    [population |-> population, generation |-> gen + 1, halloffame |-> halloffame,
     logbook |-> logbook, rndstate |-> rnd]

\* lines 663-664: the checkpoint's content
CheckpointDict ==
    [population |-> population, generation |-> gen, halloffame |-> halloffame,
     logbook |-> logbook, rndstate |-> rnd]

\* a variant of WriteCheckpoint: the folder keeps the last checkpoint only
WriteCheckpointKeepsLast ==
    /\ pc = "checkpoint"
    /\ checkpoint_flag
    /\ cp_files' = (gen :> CheckpointDict)
    /\ EndGeneration
    /\ UNCHANGED << extVars, mlopt_seed, rnd, popsize, objVars, loopVars, start_gen, ngen,
                    checkpoint_flag, checkpoint_path, progress_files,
                    histVars >>

\* lines 661-667: joblib.dump(cp, cp_gen_<gen>.pkl), the results files
\* written, then the next generation
WriteCheckpoint ==
    /\ pc = "checkpoint"
    /\ checkpoint_flag
    /\ cp_files' = (gen :> CheckpointDict) @@ cp_files
    /\ EndGeneration
    /\ UNCHANGED << extVars, mlopt_seed, rnd, popsize, objVars, loopVars, start_gen, ngen,
                    checkpoint_flag, checkpoint_path, progress_files,
                    histVars >>

\* line 661 with checkpoint_flag false: no checkpoint, the results files
\* written, then the next generation
SkipCheckpoint ==
    /\ pc = "checkpoint"
    /\ ~checkpoint_flag
    /\ EndGeneration
    /\ UNCHANGED << extVars, mlopt_seed, rnd, popsize, objVars, loopVars, start_gen, ngen,
                    checkpoint_flag, checkpoint_path, fileVars,
                    histVars >>

Next ==
    \/ Construct
    \/ \E g \in Generations : OptimizeClfFresh(g)
    \/ \E k \in DOMAIN cp_files, g \in Generations, results \in ResultsKinds :
          OptimizeClfResume(k, g, results)
    \/ \E path \in PathKinds, g \in DirectGenerations :
          CustomEaSimple(TRUE, path, g)
    \/ \E g \in DirectGenerations : CustomEaSimple(FALSE, "None", g)
    \/ Return
    \/ GenStartFail
    \/ GenStart
    \/ Vary
    \/ EvalOne
    \/ Record
    \/ Select
    \/ WriteCheckpoint
    \/ SkipCheckpoint

Spec == Init /\ [][Next]_vars

(***************************************************************************)
(* The search space and the codec: get_hyperparams, get_fixed_hyperparams  *)
(* and individual2dict as functions of dicts.                              *)
(***************************************************************************)
\* d.keys(), d[k], and d after d.pop(k, None) for every k of ks
Keys(d) == {d[i].name : i \in 1 .. Len(d)}

Get(d, k) == d[CHOOSE i \in 1 .. Len(d) : d[i].name = k]

PopKeys(d, ks) == SelectSeq(d, LAMBDA e : e.name \notin ks)

\* {**a, **b}: a's keys in their order with b's values where b has the key,
\* then b's other keys
DictMerge(a, b) ==
    [i \in 1 .. Len(a) |->
        IF a[i].name \in Keys(b) THEN Get(b, a[i].name) ELSE a[i]]
    \o SelectSeq(b, LAMBDA e : e.name \notin Keys(a))

\* line 236-237: the custom keys that are neither default nor custom-fixed
AdditionalKeys(default, custom, custom_fixed) ==
    Keys(custom) \ (Keys(default) \cup Keys(custom_fixed))

\* the orders in which a set can be iterated
Orders(S) ==
    {s \in [1 .. Cardinality(S) -> S] : {s[i] : i \in 1 .. Cardinality(S)} = S}

\* a variant of get_hyperparams: the default spec kept where a custom one is
\* given
get_hyperparamsDefaultWins(default, custom, custom_fixed, order) ==
    PopKeys(default, Keys(custom_fixed))
    \o [i \in 1 .. Len(order) |-> Get(custom, order[i])]

\* get_hyperparams, lines 226-257; order is the order in which the set of
\* additional keys is iterated
get_hyperparams(default, custom, custom_fixed, order) ==
    LET remaining == PopKeys(default, Keys(custom_fixed))
    IN  [i \in 1 .. Len(remaining) |->
            IF remaining[i].name \in Keys(custom)
            THEN Get(custom, remaining[i].name)
            ELSE remaining[i]]
        \o [i \in 1 .. Len(order) |-> Get(custom, order[i])]

\* get_fixed_hyperparams, lines 259-271
get_fixed_hyperparams(default_fixed, custom_fixed) ==
    DictMerge(default_fixed, custom_fixed)

\* Hyperparam.correct, a dimension's decoding rule: the gene itself, or the
\* gene times ten
correct(h, v) == IF h.hyperparam_type = "x10" THEN v * 10 ELSE v

\* a variant of individual2dict: {**fixed, **individual_dict}
individual2dictEvolvedWins(hp, fixed, ind) ==
    DictMerge(fixed,
              [i \in 1 .. Len(hp) |->
                  [name |-> hp[i].name, value |-> correct(hp[i], ind[i])]])

\* individual2dict, lines 206-224
individual2dict(hp, fixed, ind) ==
    DictMerge([i \in 1 .. Len(hp) |->
                  [name |-> hp[i].name, value |-> correct(hp[i], ind[i])]],
              fixed)

\* the inputs: default spaces, and the entries custom_hyperparams,
\* custom_fixed_hyperparams and a subclass's default fixed hyperparams are
\* drawn from
DefaultSpaces == {hyperparams, SubSeq(hyperparams, 1, 2)}

CustomUniverse ==
    << [name |-> "max_depth", min_value |-> 2, max_value |-> 3,
        hyperparam_type |-> "x10"],
       [name |-> "ccp_alpha", min_value |-> 1, max_value |-> 2,
        hyperparam_type |-> "int"],
       [name |-> "n_estimators", min_value |-> 1, max_value |-> 2,
        hyperparam_type |-> "x10"],
       [name |-> "gamma", min_value |-> 0, max_value |-> 1,
        hyperparam_type |-> "int"] >>

FixedUniverse ==
    << [name |-> "max_depth", value |-> 7],
       [name |-> "n_estimators", value |-> 50],
       [name |-> "criterion", value |-> 9] >>

DefaultFixedUniverse ==
    << [name |-> "min_samples", value |-> 3],
       [name |-> "criterion", value |-> 1] >>

SubDicts(u) == {SelectSeq(u, LAMBDA e : e.name \in S) : S \in SUBSET Keys(u)}

\* the genomes of a space with every gene at a bound of its dimension
Genomes(hp) ==
    {[i \in 1 .. Len(hp) |->
         IF b[i] THEN hp[i].max_value ELSE hp[i].min_value] :
       b \in [1 .. Len(hp) -> BOOLEAN]}

\* before __init__ has assembled the space
InitCodec ==
    /\ mlopt_seed = 1
    /\ popsize = MaxPop
    /\ InitEngine
    /\ default_hyperparams \in DefaultSpaces
    /\ custom_hyperparams \in SubDicts(CustomUniverse)
    /\ custom_fixed_hyperparams \in SubDicts(FixedUniverse)
    /\ default_fixed_hyperparams \in {<< >>, DefaultFixedUniverse}
    /\ use_parallel = FALSE
    /\ InitPool
    /\ InitHeap
    /\ self_hyperparams = << >>
    /\ individual = << >>
    /\ individual_dict = << >>
    /\ codec_pc = "new"

\* __init__, lines 111-114: self.hyperparams = self.get_hyperparams()
BuildSpace(order) ==
    /\ codec_pc = "new"
    /\ self_hyperparams' = get_hyperparams(default_hyperparams,
                                           custom_hyperparams,
                                           custom_fixed_hyperparams, order)
    /\ codec_pc' = "built"
    /\ UNCHANGED << engineVars, poolVars, heapVars, default_hyperparams,
                    custom_hyperparams, custom_fixed_hyperparams,
                    default_fixed_hyperparams, individual, individual_dict >>

\* individual2dict(individual) on the optimizer
Individual2Dict(genes) ==
    /\ codec_pc # "new"
    /\ individual' = genes
    /\ individual_dict' =
          individual2dict(self_hyperparams,
                          get_fixed_hyperparams(default_fixed_hyperparams,
                                                custom_fixed_hyperparams),
                          genes)
    /\ codec_pc' = "decoded"
    /\ UNCHANGED << engineVars, poolVars, heapVars, default_hyperparams,
                    custom_hyperparams, custom_fixed_hyperparams,
                    default_fixed_hyperparams, self_hyperparams >>

NextCodec ==
    \/ \E order \in Orders(AdditionalKeys(default_hyperparams,
                                          custom_hyperparams,
                                          custom_fixed_hyperparams)) :
          BuildSpace(order)
    \/ \E genes \in Genomes(self_hyperparams) : Individual2Dict(genes)

SpecCodec == InitCodec /\ [][NextCodec]_vars

(***************************************************************************)
(* Evaluation: parallel mode, and a scoring function that raises.          *)
(* optimize_clf asks for the pool before it builds the population (lines   *)
(* 432-438): with the pool, toolbox.map is pool.map, which hands the       *)
(* individuals to the workers, waits for all of them and returns the       *)
(* fitnesses in the order of its input; without it, toolbox.map is the     *)
(* lazy built-in map and each individual is evaluated in its turn of the   *)
(* loop.  No exception of the scoring function is caught.                  *)
(***************************************************************************)
PoolOutcomes == {"ok", "ImportError", "OSError"}

\* lines 432-438: the handler of ImportError logs through
\* self.optimization_logger, which is None until an earlier optimize_clf of
\* this optimizer has set it; any other exception is not handled
PoolSetup(p, logger) ==
    IF p = "ok" THEN "ok"
    ELSE IF p = "ImportError" THEN (IF logger THEN "warning" ELSE "AttributeError")
    ELSE p

\* optimize_clf(population, generations) of an optimizer built with
\* use_parallel=True, without a checkpoint
OptimizeClfPool(g, p) ==
    /\ pc = "idle"
    /\ ProgramRuns
    /\ calls < MaxCalls
    /\ use_parallel
    /\ pool' = p
    /\ pool_warning' = (PoolSetup(p, optimization_logger) = "warning")
    /\ worker_done' = << >>
    /\ fitnesses' = << >>
    /\ IF PoolSetup(p, optimization_logger) \in {"ok", "warning"}
       THEN FreshRun(g)
       ELSE /\ pc' = "idle"
            /\ outcome' = PoolSetup(p, optimization_logger)
            /\ calls' = calls + 1
            /\ call' = NoCall
            /\ UNCHANGED << mlopt_seed, rnd, popsize, objVars, loopVars,
                            argVars, fileVars, parents, touched, varied,
                            evaluated, ran, pristine, lineage, one_pass,
                            resumed >>
    /\ UNCHANGED << spaceVars, heapVars, use_parallel >>

\* a variant of EvalOneRaises: the generation is checkpointed as far as it
\* got before the exception leaves
EvalOneRaisesCommits ==
    /\ pc = "evaluate"
    /\ c <= Len(invalid_ind)
    /\ pc' = "idle"
    /\ outcome' = "ScoreError"
    /\ cp_files' = (gen :> [population |-> population, generation |-> gen,
                            halloffame |-> halloffame, logbook |-> logbook,
                            rndstate |-> rnd]) @@ cp_files
    /\ UNCHANGED << extVars, mlopt_seed, rnd, popsize, objVars, loopVars,
                    argVars, progress_files, histVars >>

\* the scoring function raises in a turn of the sequential loop: the
\* exception leaves custom_ea_simple and optimize_clf
EvalOneRaises ==
    /\ pc = "evaluate"
    /\ c <= Len(invalid_ind)
    /\ pc' = "idle"
    /\ outcome' = "ScoreError"
    /\ UNCHANGED << extVars, mlopt_seed, rnd, popsize, objVars, loopVars,
                    argVars, fileVars, histVars >>

\* the jobs of the pool.map under way that are not complete
JobsPending ==
    {j \in 1 .. Len(invalid_ind) : \A i \in 1 .. Len(worker_done) : worker_done[i] # j}

\* a worker completes the evaluation of the j-th individual given to pool.map
WorkerDone(j) ==
    /\ pc = "workers"
    /\ j \in JobsPending
    /\ worker_done' = Append(worker_done, j)
    /\ UNCHANGED << spaceVars, heapVars, use_parallel, pool, pool_warning, fitnesses,
                    engineVars >>

\* the scoring function raises in a worker: pool.map raises it at line 619
WorkerRaises(j) ==
    /\ pc = "workers"
    /\ j \in JobsPending
    /\ worker_done' = << >>
    /\ pc' = "idle"
    /\ outcome' = "ScoreError"
    /\ UNCHANGED << spaceVars, heapVars, use_parallel, pool, pool_warning, fitnesses,
                    mlopt_seed, rnd, popsize, objVars, loopVars, argVars,
                    fileVars, histVars >>

\* a variant of PoolMap: the results in the order of completion
PoolMapUnordered(pop, inv, done) ==
    [i \in 1 .. Len(inv) |-> evaluate_clf(pop[inv[done[i]]])]

\* pool.map(toolbox.evaluate, invalid_ind): the i-th result is the fitness of
\* the i-th individual, whatever the order of completion
PoolMap(pop, inv, done) ==
    [i \in 1 .. Len(inv) |-> evaluate_clf(pop[inv[i]])]

\* line 619 with pool.map: it returns once every job is complete
PoolMapReturns ==
    /\ pc = "workers"
    /\ JobsPending = {}
    /\ fitnesses' = PoolMap(population, invalid_ind, worker_done)
    /\ pc' = "assign"
    /\ UNCHANGED << spaceVars, heapVars, use_parallel, pool, pool_warning, worker_done,
                    mlopt_seed,
                    rnd, popsize, objVars, loopVars, argVars, outcome,
                    fileVars, histVars >>

\* lines 622-637 with the list pool.map returned: one turn of the loop over
\* zip(invalid_ind, fitnesses)
AssignOne ==
    /\ pc = "assign"
    /\ c <= Len(invalid_ind)
    /\ LET idx == invalid_ind[c]
           fit == fitnesses[c]
       IN  /\ population' = [population EXCEPT ![idx].fitness = fit]
           /\ progress_files' =
                [progress_files EXCEPT ![gen] =
                    Append(@, [i |-> c, total |-> Len(invalid_ind),
                               Individual |-> population[idx].genes,
                               fitness |-> fit])]
    /\ c' = c + 1
    /\ evaluated' = Append(evaluated, invalid_ind[c])
    /\ pc' = IF c = Len(invalid_ind) THEN "record" ELSE "assign"
    /\ fitnesses' = IF c = Len(invalid_ind) THEN << >> ELSE fitnesses
    /\ worker_done' = << >>
    /\ UNCHANGED << spaceVars, heapVars, use_parallel, pool, pool_warning,
                    mlopt_seed, rnd, popsize, objVars, halloffame, logbook,
                    invalid_ind, argVars, outcome, cp_files, parents, touched,
                    varied, ran, call, calls, pristine, lineage, one_pass,
                    resumed >>

InitEval ==
    /\ mlopt_seed \in Seeds
    /\ popsize \in PopSizes
    /\ InitEngine
    /\ InitSpace
    /\ use_parallel \in BOOLEAN
    /\ InitPool
    /\ InitHeap

NextEval ==
    \/ Construct
    \/ \E g \in Generations : OptimizeClfFresh(g)
    \/ \E g \in Generations, p \in PoolOutcomes : OptimizeClfPool(g, p)
    \/ Return
    \/ GenStart
    \/ Vary
    \/ EvalOne
    \/ EvalOneRaises
    \/ \E j \in 1 .. Len(invalid_ind) : WorkerDone(j)
    \/ \E j \in 1 .. Len(invalid_ind) : WorkerRaises(j)
    \/ PoolMapReturns
    \/ AssignOne
    \/ Record
    \/ Select
    \/ WriteCheckpoint

SpecEval == InitEval /\ [][NextEval]_vars

(***************************************************************************)
(* A fresh run with its objects.  The operators are DEAP's, applied to     *)
(* objects: toolbox.clone is copy.deepcopy, mate and mutate change their   *)
(* arguments in place, HallOfFame.insert stores a deepcopy, and            *)
(* selTournament returns the chosen objects themselves, so one object can  *)
(* be listed several times.                                                *)
(***************************************************************************)
Deref(h, refs) == [i \in 1 .. Len(refs) |-> h[refs[i]]]

\* a variant of HeapClone: no copy is made, the object itself is returned
HeapCloneAlias(h, ref) == [heap |-> h, ref |-> ref]

\* toolbox.clone(ind): a new object with the same genes and fitness
HeapClone(h, ref) == [heap |-> Append(h, h[ref]), ref |-> Len(h) + 1]

\* varAnd: offspring = [toolbox.clone(ind) for ind in population]
RECURSIVE HeapCloneAll(_, _, _, _)
HeapCloneAll(refs, i, h, acc) ==
    IF i > Len(refs) THEN [heap |-> h, refs |-> acc]
    ELSE LET r == HeapClone(h, refs[i])
         IN  HeapCloneAll(refs, i + 1, r.heap, Append(acc, r.ref))

\* what an object holds: its own list of genes, and its fitness
HeapValue(ind) ==
    [genes |-> [k \in 1 .. Len(ind.genes) |-> ind.genes[k]],
     fitness |-> ind.fitness]

\* the objects refs, changed in place, hold vals; the other objects are as
\* they were
HeapStore(h, refs, vals) ==
    [k \in 1 .. Len(h) |->
       IF \E i \in 1 .. Len(refs) : refs[i] = k
       THEN HeapValue(vals[CHOOSE i \in 1 .. Len(refs) :
                              /\ refs[i] = k
                              /\ \A j \in 1 .. Len(refs) : refs[j] = k => j <= i])
       ELSE h[k]]

\* HallOfFame.update for one individual: insert stores a deepcopy
HeapHofInsert(h, hof, ref) ==
    LET above == Cardinality({i \in 1 .. Len(hof) :
                               h[hof[i]].fitness[1] > h[ref].fitness[1]})
        cl    == HeapClone(h, ref)
    IN  [heap |-> cl.heap,
         refs |-> SubSeq(hof, 1, above) \o << cl.ref >>
                  \o SubSeq(hof, above + 1, Len(hof))]

HeapHofOne(h, hof, ref, first) ==
    IF Len(hof) = 0 /\ HofMaxsize # 0 THEN HeapHofInsert(h, hof, first)
    ELSE IF HofAdmits(Deref(h, hof), h[ref]) /\ ~HofSimilar(Deref(h, hof), h[ref])
         THEN HeapHofInsert(h,
                            IF Len(hof) >= HofMaxsize
                            THEN SubSeq(hof, 1, Len(hof) - 1) ELSE hof,
                            ref)
         ELSE [heap |-> h, refs |-> hof]

RECURSIVE HeapHofUpdate(_, _, _, _)
HeapHofUpdate(h, hof, pop, i) ==
    IF i > Len(pop) THEN [heap |-> h, refs |-> hof]
    ELSE LET r == HeapHofOne(h, hof, pop[i], pop[1])
         IN  HeapHofUpdate(r.heap, r.refs, pop, i + 1)

\* selTournament: the best of tournsize aspirants drawn by random.choice,
\* the object itself
RECURSIVE HeapAspirants(_, _, _, _, _)
HeapAspirants(j, h, refs, best, s) ==
    IF j = 0 THEN [best |-> best, rnd |-> s]
    ELSE LET s1  == RndAdvance(s)
             asp == refs[RndChoice(s1, Len(refs))]
         IN  HeapAspirants(j - 1, h, refs,
                           IF best = << >> THEN << asp >>
                           ELSE IF h[asp].fitness[1] > h[best[1]].fitness[1]
                                THEN << asp >> ELSE best,
                           s1)

RECURSIVE HeapSelTournament(_, _, _, _, _)
HeapSelTournament(h, refs, k, chosen, s) ==
    IF k = 0 THEN [refs |-> chosen, rnd |-> s]
    ELSE LET r == HeapAspirants(Tournsize, h, refs, << >>, s)
         IN  HeapSelTournament(h, refs, k - 1, chosen \o r.best, r.rnd)

\* the positions of the population whose object has no valid fitness
HeapInvalid == SelectSeq([i \in 1 .. Len(population_refs) |-> i],
                         LAMBDA i : ~Valid(heap[population_refs[i]]))

\* optimize_clf, lines 440-446: toolbox.population(n), an empty hall of fame
HeapPopulation ==
    /\ heap_pc = "new"
    /\ LET r == initRepeat(popsize, << >>, heap_rnd)
       IN  /\ heap' = r.pop
           /\ population_refs' = [i \in 1 .. Len(r.pop) |-> i]
           /\ heap_rnd' = r.rnd
    /\ halloffame_refs' = << >>
    /\ populations_refs' = << >>
    /\ heap_gen' = 0
    /\ heap_pc' = "vary"
    /\ UNCHANGED << engineVars, spaceVars, poolVars, heap_ngen >>

\* line 615: population = varAnd(population, toolbox, cxpb, mutpb); the
\* offspring are the clones, mate and mutate are applied to them in place,
\* and the list of the offspring is what population names from here on
HeapVarAnd ==
    /\ heap_pc = "vary"
    /\ heap_gen <= heap_ngen
    /\ LET cl == HeapCloneAll(population_refs, 1, heap, << >>)
           r  == varAnd(Deref(cl.heap, cl.refs), heap_rnd)
       IN  /\ heap' = HeapStore(cl.heap, cl.refs, r.pop)
           /\ population_refs' = cl.refs
           /\ heap_rnd' = r.rnd
    /\ heap_pc' = "evaluate"
    /\ UNCHANGED << engineVars, spaceVars, poolVars, halloffame_refs,
                    populations_refs, heap_gen, heap_ngen >>

\* lines 618-637, one turn: ind.fitness.values = fit on the next individual
\* without a valid fitness
HeapEvaluate ==
    /\ heap_pc = "evaluate"
    /\ HeapInvalid # << >>
    /\ LET ref == population_refs[HeapInvalid[1]]
       IN  heap' = [heap EXCEPT ![ref].fitness = evaluate_clf(heap[ref])]
    /\ UNCHANGED << engineVars, spaceVars, poolVars, population_refs,
                    halloffame_refs, populations_refs, heap_rnd, heap_gen,
                    heap_ngen, heap_pc >>

\* line 639: halloffame.update(population)
HeapRecord ==
    /\ heap_pc = "evaluate"
    /\ HeapInvalid = << >>
    /\ LET r == HeapHofUpdate(heap, halloffame_refs, population_refs, 1)
       IN  /\ heap' = r.heap
           /\ halloffame_refs' = r.refs
    /\ heap_pc' = "select"
    /\ UNCHANGED << engineVars, spaceVars, poolVars, population_refs,
                    populations_refs, heap_rnd, heap_gen, heap_ngen >>

\* lines 648-659: population = toolbox.select(population, len(population)),
\* and self.populations.append([[ind, ind.fitness] for ind in population])
HeapSelect ==
    /\ heap_pc = "select"
    /\ LET r == HeapSelTournament(heap, population_refs, Len(population_refs),
                                  << >>, heap_rnd)
       IN  /\ population_refs' = r.refs
           /\ heap_rnd' = r.rnd
           /\ populations_refs' = Append(populations_refs, r.refs)
    /\ heap_gen' = heap_gen + 1
    /\ heap_pc' = "vary"
    /\ UNCHANGED << engineVars, spaceVars, poolVars, heap, halloffame_refs,
                    heap_ngen >>

\* line 671: return population, logbook, halloffame
HeapReturn ==
    /\ heap_pc = "vary"
    /\ heap_gen > heap_ngen
    /\ heap_pc' = "returned"
    /\ UNCHANGED << engineVars, spaceVars, poolVars, heap, population_refs,
                    halloffame_refs, populations_refs, heap_rnd, heap_gen,
                    heap_ngen >>

\* a new optimizer, about to run optimize_clf(population, generations)
InitObjects ==
    /\ mlopt_seed \in Seeds
    /\ popsize \in PopSizes
    /\ InitEngine
    /\ InitSpace
    /\ use_parallel = FALSE
    /\ InitPool
    /\ heap = << >>
    /\ population_refs = << >>
    /\ halloffame_refs = << >>
    /\ populations_refs = << >>
    /\ heap_rnd = set_mlopt_seed(mlopt_seed)
    /\ heap_gen = 0
    /\ heap_ngen \in Generations
    /\ heap_pc = "new"

NextObjects ==
    \/ HeapPopulation
    \/ HeapVarAnd
    \/ HeapEvaluate
    \/ HeapRecord
    \/ HeapSelect
    \/ HeapReturn

SpecObjects == InitObjects /\ [][NextObjects]_vars

(***************************************************************************)
(* Properties.                                                             *)
(***************************************************************************)
SeqToSet(s) == {s[i] : i \in 1 .. Len(s)}

NoRepeats(s) == \A i, j \in 1 .. Len(s) : i # j => s[i] # s[j]

IsPrefix(s, t) == Len(s) <= Len(t) /\ SubSeq(t, 1, Len(s)) = s

\* the positions whose fitness was invalid after variation
InvalidAfterVariation == {i \in 1 .. Len(varied) : ~Valid(varied[i])}

\* C1: in every generation an individual that no operator touched and whose
\* fitness was valid keeps that fitness and is not passed to the evaluator;
\* the evaluator is called once for each individual whose fitness was invalid
\* after variation and for no other, and the generation's logbook record has
\* that number as nevals.
C1_UntouchedNotReevaluated ==
    /\ pc \in {"evaluate", "record", "select"} =>
         /\ \A i \in 1 .. Len(population) :
               (~touched[i] /\ Valid(parents[i])) =>
                   /\ population[i] = parents[i]
                   /\ i \notin SeqToSet(evaluated)
         /\ SeqToSet(evaluated) \subseteq InvalidAfterVariation
         /\ NoRepeats(evaluated)
    /\ pc \in {"record", "select", "checkpoint"} =>
         Len(evaluated) = Cardinality(InvalidAfterVariation)
    /\ pc \in {"select", "checkpoint"} =>
         /\ logbook[Len(logbook)].gen = gen
         /\ logbook[Len(logbook)].nevals = Cardinality(InvalidAfterVariation)

\* a generation in which some individuals were evaluated and an untouched
\* one with a valid fitness was not
C1_Witness ==
    /\ pc = "record"
    /\ evaluated # << >>
    /\ \E i \in 1 .. Len(population) : ~touched[i] /\ Valid(parents[i])

C4_HofBounded ==
    /\ Len(halloffame) <= HofMaxsize
    /\ \A i, j \in 1 .. Len(halloffame) :
          i # j => halloffame[i].genes # halloffame[j].genes

\* a full hall of fame, just updated from a population one of whose
\* individuals it does not hold
C4_Witness ==
    /\ pc = "select"
    /\ Len(halloffame) = HofMaxsize
    /\ \E i \in 1 .. Len(population) : ~HofSimilar(halloffame, population[i])

HofBest(items) == SeqMax(FitValues(items))

\* C5: within a run the best fitness in the hall of fame never decreases,
\* and a hall of fame that holds an individual never becomes empty.
C5_HofMonotonic ==
    [][(pc # "idle" /\ halloffame # << >>) =>
          (halloffame' # << >> /\ HofBest(halloffame') >= HofBest(halloffame))]_vars

\* a generation g >= 1 of a fresh run whose best individual beat every
\* earlier generation's and leads the hall of fame
C5_Witness ==
    /\ pc = "select"
    /\ call.kind = "fresh"
    /\ gen >= 1
    /\ HofBest(halloffame) = logbook[Len(logbook)].max
    /\ \A k \in 1 .. Len(logbook) - 1 : logbook[k].max < logbook[Len(logbook)].max

\* C6: a call of custom_ea_simple with checkpoint_flag true and a
\* checkpoint_path that is None, missing or not a directory fails with
\* NotADirectoryError before any generation runs: nothing is varied or
\* evaluated, the population, logbook and hall of fame are as given, and no
\* progress or checkpoint file is written.
C6_FailsFastWithDirectoryError ==
    (call.kind # "none" /\ checkpoint_flag /\ checkpoint_path # "Dir") =>
        /\ pc = "idle"
        /\ outcome = "NotADirectoryError"
        /\ ran = << >>
        /\ varied = << >>
        /\ evaluated = << >>
        /\ population = call.population
        /\ logbook = call.logbook
        /\ halloffame = call.halloffame
        /\ cp_files = call.cp_files
        /\ progress_files = call.progress_files

\* the generations start_gen .. ngen, in order
GensOf(a, b) == [i \in 1 .. (IF b >= a THEN b - a + 1 ELSE 0) |-> a + i - 1]

\* C7: a run started by optimize_clf enters the generations start_gen, ...,
\* ngen in increasing order, each once, and then returns the population, the
\* logbook and the hall of fame; with start_gen > ngen it enters none and
\* returns what it was given.
C7_LoopRunsAndReturns ==
    call.kind \in {"fresh", "resume"} =>
        /\ IsPrefix(ran, GensOf(start_gen, ngen))
        /\ pc = "idle" =>
              /\ LoopReturned
              /\ ran = GensOf(start_gen, ngen)
              /\ start_gen > ngen =>
                    /\ population = call.population
                    /\ logbook = call.logbook
                    /\ halloffame = call.halloffame

\* the generations of the current call that are complete, and the number of
\* selections the current call has made
Completed == {k \in 1 .. Len(ran) : ran[k] < gen}

Selected == Cardinality(Completed) + (IF pc = "checkpoint" THEN 1 ELSE 0)

\* C8: with checkpoint_flag true, once generation g of a run is complete the
\* file cp_gen_g exists and holds generation g, the population selected in
\* generation g and the logbook up to and including g's record; when the
\* next generation is about to start the file of the last generation is
\* exactly the population, hall of fame, logbook and random state of that
\* moment.
C8_CheckpointPerGeneration ==
    (checkpoint_flag /\ call.kind # "none" /\ (pc # "idle" \/ LoopReturned)) =>
        /\ \A k \in Completed :
              /\ ran[k] \in DOMAIN cp_files
              /\ LET cp == cp_files[ran[k]]
                 IN  /\ cp.generation = ran[k]
                     /\ IsPrefix(cp.logbook, logbook)
                     /\ Len(cp.logbook) = Len(call.logbook) + k
                     /\ cp.logbook[Len(cp.logbook)].gen = ran[k]
                     /\ cp.population =
                            populations[Len(populations) - Selected + k]
        /\ (pc = "gen_start" /\ ran # << >>) =>
              cp_files[gen - 1] =
                  [population |-> population, generation |-> gen - 1,
                   halloffame |-> halloffame, logbook |-> logbook,
                   rndstate |-> rnd]

\* the third generation of a run is about to start, two checkpoints written
C8_Witness ==
    /\ pc = "gen_start"
    /\ checkpoint_flag
    /\ Len(ran) >= 2
    /\ gen <= ngen
    /\ cp_files[gen - 1].population # cp_files[gen - 2].population

\* C9: a run resumed from a checkpoint starts with the population, hall of
\* fame, logbook and random state of the checkpoint; the first generation it
\* enters is the saved generation + 1 and what it varies is the saved
\* population under the saved random state; the checkpoint's logbook stays a
\* prefix of the run's logbook.
C9_ResumeRestores ==
    call.kind = "resume" =>
        LET cp == call.cp_files[call.from]
            Restored == /\ population = cp.population
                        /\ halloffame = cp.halloffame
                        /\ logbook = cp.logbook
                        /\ rnd = cp.rndstate
        IN  /\ start_gen = cp.generation + 1
            /\ (pc = "gen_start" /\ ran = << >>) => (Restored /\ gen = cp.generation + 1)
            /\ ran # << >> => ran[1] = cp.generation + 1
            /\ (pc = "vary" /\ Len(ran) = 1) => Restored
            /\ (pc \in {"evaluate", "record"} /\ Len(ran) = 1) =>
                  /\ parents = cp.population
                  /\ varied = varAnd(cp.population, cp.rndstate).pop
            /\ IsPrefix(cp.logbook, logbook)

\* a resumed run has varied the saved population and is evaluating
C9_Witness ==
    /\ call.kind = "resume"
    /\ pc = "evaluate"
    /\ Len(ran) = 1
    /\ call.from >= 1

InBounds(ind) ==
    /\ Len(ind.genes) = NDims
    /\ \A k \in 1 .. NDims :
          /\ hyperparams[k].min_value <= ind.genes[k]
          /\ ind.genes[k] <= hyperparams[k].max_value

\* C10: every individual that init_individual creates, and every individual
\* of the population and of the hall of fame at any point of a run, has one
\* gene per dimension, each within [min_value, max_value].
C10_GenesWithinBounds ==
    /\ \A i \in 1 .. Len(population) : InBounds(population[i])
    /\ \A i \in 1 .. Len(halloffame) : InBounds(halloffame[i])
    /\ call.kind = "fresh" =>
          /\ Len(call.population) = popsize
          /\ \A i \in 1 .. Len(call.population) : InBounds(call.population[i])

\* an individual changed by variation holds a gene at its upper bound and one
\* at its lower bound, and the hall of fame is not empty
C10_Witness ==
    /\ pc = "record"
    /\ halloffame # << >>
    /\ \E i \in 1 .. Len(population) :
          /\ touched[i]
          /\ population[i].genes # parents[i].genes
          /\ \E k \in 1 .. NDims : population[i].genes[k] = hyperparams[k].max_value
          /\ \E k \in 1 .. NDims : population[i].genes[k] = hyperparams[k].min_value

\* the names of a dict, in order
Names(d) == [i \in 1 .. Len(d) |-> d[i].name]

\* C11: individual2dict returns a configuration whose keys are exactly the
\* evolved dimensions together with the fixed hyperparameters, each once; an
\* evolved key holds its dimension's decoding of the gene at the same
\* position, unless the key is also fixed, and every fixed key holds the
\* fixed value.
C11_DecodedConfiguration ==
    codec_pc = "decoded" =>
        LET fixed == get_fixed_hyperparams(default_fixed_hyperparams,
                                           custom_fixed_hyperparams)
        IN  /\ Keys(individual_dict) = Keys(self_hyperparams) \cup Keys(fixed)
            /\ NoRepeats(Names(individual_dict))
            /\ \A i \in 1 .. Len(self_hyperparams) :
                  LET k == self_hyperparams[i].name
                  IN  Get(individual_dict, k).value =
                         IF k \in Keys(fixed)
                         THEN Get(fixed, k).value
                         ELSE correct(self_hyperparams[i], individual[i])
            /\ \A k \in Keys(fixed) :
                  Get(individual_dict, k).value = Get(fixed, k).value

\* a genome decoded in a space with a times-ten dimension, a key that is both
\* evolved and fixed, and a fixed key that is not evolved
C11_Witness ==
    /\ codec_pc = "decoded"
    /\ \E i \in 1 .. Len(self_hyperparams) :
          /\ self_hyperparams[i].hyperparam_type = "x10"
          /\ Get(individual_dict, self_hyperparams[i].name).value =
                10 * individual[i]
          /\ individual[i] > 0
    /\ \E i \in 1 .. Len(self_hyperparams) :
          /\ self_hyperparams[i].name \in Keys(default_fixed_hyperparams)
          /\ Get(individual_dict, self_hyperparams[i].name).value # individual[i]
    /\ Keys(custom_fixed_hyperparams) \ Keys(self_hyperparams) # {}

\* C12: the keys of the evolved space are (default keys union custom keys)
\* minus the custom-fixed keys, each once; a key of custom holds the custom
\* spec and any other key the default spec; no evolved key is custom-fixed.
C12_SpacePrecedence ==
    codec_pc # "new" =>
        /\ Keys(self_hyperparams) =
              (Keys(default_hyperparams) \cup Keys(custom_hyperparams))
                 \ Keys(custom_fixed_hyperparams)
        /\ NoRepeats(Names(self_hyperparams))
        /\ \A i \in 1 .. Len(self_hyperparams) :
              LET k == self_hyperparams[i].name
              IN  self_hyperparams[i] =
                     IF k \in Keys(custom_hyperparams)
                     THEN Get(custom_hyperparams, k)
                     ELSE Get(default_hyperparams, k)
        /\ Keys(self_hyperparams) \cap Keys(custom_fixed_hyperparams) = {}

\* a space with a default dimension overridden, one removed because it is
\* fixed although a custom spec is given for it, one kept from the defaults
\* and two additional ones
C12_Witness ==
    /\ codec_pc = "built"
    /\ "max_depth" \in Keys(custom_hyperparams) \cap Keys(custom_fixed_hyperparams)
    /\ "ccp_alpha" \in Keys(custom_hyperparams) \cap Keys(default_hyperparams)
    /\ "min_samples" \in Keys(self_hyperparams)
    /\ Cardinality(AdditionalKeys(default_hyperparams, custom_hyperparams,
                                  custom_fixed_hyperparams)) = 2

\* the hall of fame and the length of the logbook when the generation under
\* way started
HofAtGenStart ==
    IF gen = start_gen THEN call.halloffame ELSE cp_files[gen - 1].halloffame

LogbookLenAtGenStart == Len(call.logbook) + Len(ran) - 1

\* C13: when the scoring function raises while generation gen is evaluated,
\* the run is over with that error and generation gen is not committed:
\* there is no checkpoint of gen, the logbook has no record of gen, and the
\* hall of fame is the one the generation started with.
C13_FailedGenerationNotCommitted ==
    outcome = "ScoreError" =>
        /\ pc = "idle"
        /\ ran # << >>
        /\ ran[Len(ran)] = gen
        /\ gen \notin DOMAIN cp_files
        /\ \A i \in 1 .. Len(logbook) : logbook[i].gen < gen
        /\ Len(logbook) = LogbookLenAtGenStart
        /\ halloffame = HofAtGenStart

\* the scoring function raised in a generation after the first, after some
\* individuals of that generation had been evaluated
C13_Witness ==
    /\ outcome = "ScoreError"
    /\ gen >= 1
    /\ c > 1
    /\ pool # "ok"
    /\ halloffame # << >>

\* C14: when optimize_clf in parallel mode cannot get its pool
\* (multiprocessing raises ImportError), it logs a warning and the run goes
\* on with sequential evaluation: unless the scoring function raises, it
\* runs all the generations 0 .. ngen and returns.
C14_PoolFallbackContinues ==
    (pool = "ImportError" /\ (pc # "idle" \/ outcome # "none")) =>
        /\ pool_warning
        /\ outcome \in {"none", "returned", "ScoreError"}
        /\ (pc = "idle" /\ outcome = "returned") => ran = GensOf(0, ngen)

\* C20: with the pool, the list pool.map returns holds at position i the
\* fitness of the i-th individual given to it, in whatever order the workers
\* completed, and that is the fitness the individual is assigned; until the
\* list is returned no individual is assigned a fitness, and until all are
\* assigned the hall of fame and the logbook are those the generation
\* started with and the generation has no checkpoint.
C20_PoolMapPositional ==
    pool = "ok" =>
        /\ pc = "workers" =>
              /\ fitnesses = << >>
              /\ c = 1
              /\ population = varied
        /\ pc = "assign" =>
              /\ Len(fitnesses) = Len(invalid_ind)
              /\ \A i \in 1 .. Len(invalid_ind) :
                    fitnesses[i] = evaluate_clf(varied[invalid_ind[i]])
        /\ pc \in {"assign", "record"} =>
              /\ \A i \in 1 .. Len(population) :
                    population[i].genes = varied[i].genes
              /\ \A i \in 1 .. (c - 1) :
                    population[invalid_ind[i]].fitness =
                       evaluate_clf(varied[invalid_ind[i]])
        /\ pc \in {"workers", "assign"} =>
              /\ halloffame = HofAtGenStart
              /\ Len(logbook) = LogbookLenAtGenStart
              /\ gen \notin DOMAIN cp_files

\* pool.map has returned after the workers completed in an order that is not
\* the order of dispatch, for individuals of different fitness
C20_Witness ==
    /\ pool = "ok"
    /\ pc = "assign"
    /\ c = 1
    /\ Len(worker_done) >= 3
    /\ worker_done[1] = Len(worker_done)
    /\ worker_done[Len(worker_done)] = 1
    /\ fitnesses[1] # fitnesses[Len(fitnesses)]

\* C15: in fresh and resumed runs that share a checkpoint folder, the
\* checkpoint of a generation is never written over a checkpoint file that
\* is already there.
C15_CheckpointNeverOverwritten ==
    (pc = "checkpoint" /\ checkpoint_flag /\ call.kind \in {"fresh", "resume"}) =>
        gen \notin DOMAIN cp_files

\* What does hold of the checkpoint files: writing the checkpoint of
\* generation gen creates or replaces the file cp_gen_<gen> and leaves the
\* file of every other generation as it was; apart from that, checkpoint
\* files change only when a fresh run removes and remakes its execution
\* folder.
WriteTouchesOnlyItsGeneration ==
    [][\/ cp_files' = cp_files
       \/ pc = "idle" /\ call'.kind = "fresh" /\ cp_files' = EmptyMap
       \/ /\ pc = "checkpoint"
          /\ checkpoint_flag
          /\ DOMAIN cp_files' = DOMAIN cp_files \cup {gen}
          /\ \A g \in DOMAIN cp_files \ {gen} : cp_files'[g] = cp_files[g]]_vars

\* a resumed run has replaced the checkpoint of a generation that an earlier
\* run had written, beside the untouched checkpoints of an earlier and of a
\* later generation
ResumedRunReplacedCheckpoint ==
    /\ call.kind = "resume"
    /\ pc = "gen_start"
    /\ ran # << >>
    /\ (gen - 1) \in DOMAIN call.cp_files
    /\ gen \in DOMAIN cp_files
    /\ cp_files[gen] = call.cp_files[gen]
    /\ cp_files[call.from] = call.cp_files[call.from]

\* C16: when a fresh run has returned, every individual evaluated in one of
\* its generations is in self.populations with its fitness.
C16_EveryEvaluatedExported ==
    (call.kind = "fresh" /\ pc = "idle" /\ outcome = "returned") =>
        \A g \in DOMAIN progress_files :
            \A k \in 2 .. Len(progress_files[g]) :
                \E p \in 1 .. Len(populations) :
                    \E j \in 1 .. Len(populations[p]) :
                        /\ populations[p][j].genes = progress_files[g][k].Individual
                        /\ populations[p][j].fitness = progress_files[g][k].fitness

\* C17: in every generation each individual whose fitness is invalid after
\* variation is evaluated exactly once, in the order of the population, and
\* when the hall of fame is updated, the statistics compiled and the
\* selection made, every individual of the population has a valid fitness.
C17_EvaluatedOnceThenValid ==
    /\ pc \in {"evaluate", "record", "select"} =>
          /\ NoRepeats(evaluated)
          /\ IsPrefix(evaluated, invalid_ind)
          /\ Len(evaluated) = c - 1
          /\ SeqToSet(invalid_ind) = InvalidAfterVariation
          /\ \A k \in 1 .. Len(evaluated) :
                population[evaluated[k]].fitness = evaluate_clf(varied[evaluated[k]])
    /\ pc \in {"record", "select"} =>
          /\ evaluated = invalid_ind
          /\ \A i \in 1 .. Len(population) : Valid(population[i])
    /\ pc = "checkpoint" =>
          \A i \in 1 .. Len(population) : Valid(population[i])

\* the hall of fame is about to be updated from a population of which some
\* individuals were evaluated in this generation and some were not
C17_Witness ==
    /\ pc = "record"
    /\ Len(evaluated) >= 2
    /\ Len(evaluated) < Len(population)
    /\ gen >= 1

\* C18: the logbook of a run only grows, by one record per generation, made
\* when the generation is recorded and holding its index; a fresh run that
\* has returned with budget ngen leaves the records of 0, 1, ..., ngen, in
\* order.  (On entry a call takes the logbook it is given: optimize_clf a new
\* one, or the checkpoint's.)
C18_LogbookAppendOnly ==
    /\ [][\/ logbook' = logbook
          \/ pc = "idle"
          \/ /\ pc = "record"
             /\ Len(logbook') = Len(logbook) + 1
             /\ SubSeq(logbook', 1, Len(logbook)) = logbook
             /\ logbook'[Len(logbook')].gen = gen]_vars
    /\ []((call.kind = "fresh" /\ pc = "idle" /\ LoopReturned) =>
             /\ Len(logbook) = ngen + 1
             /\ \A i \in 1 .. Len(logbook) : logbook[i].gen = i - 1)
    /\ []((call.kind # "none" /\ pc \in {"select", "checkpoint"}) =>
             /\ Len(logbook) = LogbookLenAtGenStart + 1
             /\ logbook[Len(logbook)].gen = gen)

\* a fresh run with the larger budget has returned
C18_Witness ==
    /\ call.kind = "fresh"
    /\ pc = "idle"
    /\ outcome = "returned"
    /\ ngen = MaxGen
    /\ Len(logbook) = MaxGen + 1

\* C19: in a fresh run with population size N the population has N
\* individuals at every point: as built, after variation, after selection,
\* as returned, and in every checkpoint and every entry of self.populations
\* the run has written.
C19_PopulationSizeConstant ==
    call.kind = "fresh" =>
        /\ Len(call.population) = popsize
        /\ Len(population) = popsize
        /\ pc \in {"evaluate", "record", "select", "checkpoint"} =>
              Len(varied) = popsize
        /\ \A g \in DOMAIN cp_files : Len(cp_files[g].population) = popsize
        /\ \A k \in 1 .. Len(ran) :
              (ran[k] < gen \/ pc = "checkpoint") =>
                 Len(populations[Len(populations) - Selected + k]) = popsize

\* a fresh run of the larger population has returned after several
\* generations
C19_Witness ==
    /\ call.kind = "fresh"
    /\ pc = "idle"
    /\ outcome = "returned"
    /\ popsize = MaxPop
    /\ Len(population) = MaxPop
    /\ Len(ran) >= 2

\* the row the progress file of the current generation holds for the k-th
\* evaluation
ProgressRow(k) ==
    [i |-> k, total |-> Len(invalid_ind),
     Individual |-> varied[evaluated[k]].genes,
     fitness |-> evaluate_clf(varied[evaluated[k]])]

\* C21: the progress file of a generation holds the header and then one row
\* per individual evaluated in it, in the order of evaluation, numbered 1, 2,
\* ..., with total the number of individuals the generation has to evaluate
\* (the nevals of its logbook record); inside a run the progress files change
\* only by the file of the generation being made with its header when the
\* generation starts, and by one row appended to it per evaluation.
C21_ProgressFileAppendOnly ==
    /\ [][\/ progress_files' = progress_files
          \/ pc = "idle"
          \/ /\ pc = "gen_start"
             /\ DOMAIN progress_files' = DOMAIN progress_files \cup {gen}
             /\ progress_files'[gen] = << ProgressHeader >>
             /\ \A g \in DOMAIN progress_files \ {gen} :
                   progress_files'[g] = progress_files[g]
          \/ /\ pc = "evaluate"
             /\ DOMAIN progress_files' = DOMAIN progress_files
             /\ Len(progress_files'[gen]) = Len(progress_files[gen]) + 1
             /\ SubSeq(progress_files'[gen], 1, Len(progress_files[gen])) =
                   progress_files[gen]
             /\ \A g \in DOMAIN progress_files \ {gen} :
                   progress_files'[g] = progress_files[g]]_vars
    /\ []((call.kind # "none" /\ pc \in {"evaluate", "record", "select", "checkpoint"}) =>
             /\ gen \in DOMAIN progress_files
             /\ progress_files[gen][1] = ProgressHeader
             /\ Len(progress_files[gen]) = 1 + Len(evaluated)
             /\ \A k \in 1 .. Len(evaluated) :
                   progress_files[gen][k + 1] = ProgressRow(k)
             /\ pc # "evaluate" => Len(evaluated) = Len(invalid_ind))
    /\ [](call.kind # "none" =>
             \A k \in Completed :
                LET file == progress_files[ran[k]]
                    rec  == logbook[Len(call.logbook) + k]
                IN  /\ file[1] = ProgressHeader
                    /\ Len(file) = 1 + rec.nevals
                    /\ \A j \in 1 .. rec.nevals :
                          file[j + 1].i = j /\ file[j + 1].total = rec.nevals)

\* a generation after the first is about to be recorded, some of its
\* individuals evaluated and some not, while the file of the generation
\* before holds its rows
C21_Witness ==
    /\ pc = "record"
    /\ gen >= 1
    /\ Len(ran) >= 2
    /\ Len(evaluated) >= 2
    /\ Len(evaluated) < Len(population)
    /\ Len(progress_files[gen]) = 1 + Len(evaluated)
    /\ Len(progress_files[gen - 1]) >= 2

\* the max field of the logbook's records
LogbookMaxes == [i \in 1 .. Len(logbook) |-> logbook[i].max]

\* C23: in a fresh run, once generation 0 is recorded, the hall of fame is
\* not empty, its first item is its best, and its best fitness is the
\* largest max field of the logbook's records, which are those of the
\* generations recorded so far; the record of a generation is compiled from
\* the population the hall of fame was updated from, before selection.
C23_HofBestIsLogbookMax ==
    /\ (call.kind = "fresh" /\ logbook # << >>) =>
          /\ halloffame # << >>
          /\ HofBest(halloffame) = SeqMax(LogbookMaxes)
          /\ halloffame[1].fitness[1] = HofBest(halloffame)
    /\ (call.kind = "fresh" /\ pc = "select") =>
          /\ logbook[Len(logbook)].gen = gen
          /\ logbook[Len(logbook)].max = SeqMax(FitValues(population))
          /\ \A i \in 1 .. Len(population) :
                population[i].fitness[1] <= HofBest(halloffame)

\* a fresh run has recorded a generation after the first whose best beat
\* every generation before it, and now one whose best is below the hall's
C23_Witness ==
    /\ call.kind = "fresh"
    /\ pc = "select"
    /\ gen >= 2
    /\ logbook[Len(logbook)].max < HofBest(halloffame)
    /\ \E g \in 2 .. Len(logbook) - 1 :
          \A h \in 1 .. g - 1 : logbook[h].max < logbook[g].max

\* C24: in a fresh run with population size N the N individuals built at
\* random have no fitness, so in generation 0 every individual of the varied
\* population is to be evaluated, whether an operator was applied to it or
\* not, all N are evaluated, and the record of generation 0 has nevals = N.
C24_GenerationZeroEvaluatesAll ==
    call.kind = "fresh" =>
        /\ Len(call.population) = popsize
        /\ \A i \in 1 .. popsize : ~Valid(call.population[i])
        /\ (gen = 0 /\ pc \in {"evaluate", "record", "select", "checkpoint"}) =>
              /\ Len(varied) = popsize
              /\ invalid_ind = [i \in 1 .. popsize |-> i]
              /\ Len(progress_files[0]) = 1 + Len(evaluated)
        /\ (gen = 0 /\ pc \in {"record", "select", "checkpoint"}) =>
              /\ evaluated = [i \in 1 .. popsize |-> i]
              /\ \A i \in 1 .. popsize : Valid(population[i])
        /\ logbook # << >> =>
              /\ logbook[1].gen = 0
              /\ logbook[1].nevals = popsize

\* generation 0 of a fresh run of the larger population has been evaluated,
\* with an individual no operator was applied to
C24_Witness ==
    /\ call.kind = "fresh"
    /\ pc = "select"
    /\ gen = 0
    /\ popsize = MaxPop
    /\ \E i \in 1 .. popsize : ~touched[i]
    /\ logbook[1].nevals = MaxPop

(***************************************************************************)
(* The loop as a function of what it is given: lines 615-659 of one        *)
(* generation, and the generations from g to n, with nothing of the        *)
(* checkpoint arguments in them.                                           *)
(***************************************************************************)
RECURSIVE EvaluateAll(_, _, _)
EvaluateAll(pop, inv, k) ==
    IF k > Len(inv) THEN pop
    ELSE EvaluateAll([pop EXCEPT ![inv[k]].fitness = evaluate_clf(pop[inv[k]])],
                     inv, k + 1)

Generation(st, g) ==
    LET v   == varAnd(st.population, st.rnd)
        inv == InvalidPositions(v.pop)
        ev  == EvaluateAll(v.pop, inv, 1)
        sel == selTournament(ev, Len(ev), << >>, v.rnd)
    IN  [population  |-> sel.pop,
         halloffame  |-> HallOfFameUpdate(st.halloffame, ev),
         logbook     |-> Append(st.logbook,
                                LogbookRecord(g, Len(inv), StatsCompile(ev))),
         rnd         |-> sel.rnd,
         populations |-> Append(st.populations, sel.pop)]

RECURSIVE LoopResult(_, _, _)
LoopResult(st, g, n) ==
    IF g > n THEN st ELSE LoopResult(Generation(st, g), g + 1, n)

\* what the current call was given, and what the loop holds now
LoopEntry ==
    [population |-> call.population, halloffame |-> call.halloffame,
     logbook |-> call.logbook, rnd |-> call.rnd,
     populations |-> call.populations]

LoopNow ==
    [population |-> population, halloffame |-> halloffame, logbook |-> logbook,
     rnd |-> rnd, populations |-> populations]

\* C25: a call of custom_ea_simple with checkpoint_flag false is not stopped
\* by the check of the checkpoint path, whatever the path, and changes no
\* checkpoint file; when it returns it has entered every generation from
\* start_gen to ngen; and between generations the population, hall of fame,
\* logbook, random state and population history of every call, with or
\* without checkpointing, are the same function of what the call was given.
C25_NoCheckpointSameResults ==
    /\ (call.kind = "direct" /\ ~checkpoint_flag) =>
          /\ outcome \notin {"NotADirectoryError", "AttributeError"}
          /\ cp_files = call.cp_files
          /\ (pc = "idle" /\ outcome = "returned") =>
                /\ ran = GensOf(start_gen, ngen)
                /\ LoopNow = LoopResult(LoopEntry, start_gen, ngen)
    /\ (call.kind # "none" /\ pc = "gen_start") =>
          LoopNow = LoopResult(LoopEntry, start_gen, gen - 1)

\* a call without checkpointing, given no checkpoint path, has run its
\* generations and returned, beside the checkpoint files of an earlier run
C25_Witness ==
    /\ call.kind = "direct"
    /\ ~checkpoint_flag
    /\ checkpoint_path = "None"
    /\ pc = "idle"
    /\ outcome = "returned"
    /\ Len(ran) = 2
    /\ Len(populations) = Len(call.populations) + 2
    /\ call.cp_files # EmptyMap
    /\ cp_files = call.cp_files

\* the objects held when a generation is over: those of its population, of
\* the hall of fame and of the entries of the population history
HeldRefs ==
    SeqToSet(population_refs) \cup SeqToSet(halloffame_refs)
        \cup UNION {SeqToSet(populations_refs[k]) : k \in 1 .. Len(populations_refs)}

\* the run with its objects computes what the loop computes on values
HeapAgreesWithLoop ==
    heap_pc \in {"vary", "returned"} =>
        LET init == initRepeat(popsize, << >>, set_mlopt_seed(mlopt_seed))
            res  == LoopResult([population |-> init.pop, halloffame |-> << >>,
                                logbook |-> << >>, rnd |-> init.rnd,
                                populations |-> << >>], 0, heap_gen - 1)
        IN  /\ Deref(heap, population_refs) = res.population
            /\ Deref(heap, halloffame_refs) = res.halloffame
            /\ heap_rnd = res.rnd
            /\ [k \in 1 .. Len(populations_refs) |->
                   Deref(heap, populations_refs[k])] = res.populations

\* C22: the variation of a generation leaves the genes and fitness of every
\* object of the population before it, of the hall of fame and of the
\* population history as they were, and no step of the run changes an object
\* the hall of fame or an entry of the population history made before the
\* current generation holds; the offspring are objects of their own, each
\* listed once and held by nothing else.
C22_VariationTouchesOnlyCopies ==
    /\ [][/\ heap_pc = "vary" =>
               \A ref \in HeldRefs : heap'[ref] = heap[ref]
          /\ \A ref \in SeqToSet(halloffame_refs)
                  \cup UNION {SeqToSet(populations_refs[k]) :
                                 k \in 1 .. Len(populations_refs)} :
               heap'[ref] = heap[ref]]_vars
    /\ [](heap_pc = "evaluate" =>
             /\ NoRepeats(population_refs)
             /\ \A i \in 1 .. Len(population_refs) :
                   population_refs[i] \notin
                       SeqToSet(halloffame_refs)
                         \cup UNION {SeqToSet(populations_refs[k]) :
                                        k \in 1 .. Len(populations_refs)})

\* one object was selected twice in the generation before, and in this
\* generation an operator has changed one of its two copies and not the
\* other
C22_Witness ==
    /\ heap_pc = "evaluate"
    /\ heap_gen >= 1
    /\ LET last == populations_refs[Len(populations_refs)]
       IN  \E i, j \in 1 .. Len(last) :
              /\ i # j
              /\ last[i] = last[j]
              /\ heap[population_refs[i]].genes # heap[last[i]].genes
              /\ heap[population_refs[j]].genes = heap[last[j]].genes
              /\ Valid(heap[last[i]])

=============================================================================
